---- MODULE Spec2Model ----
(***************************************************************************)
(* page_texts(pdf_path) of abawd_llm/src/extract_pages.py as a state       *)
(* machine: Pass 1 (Camelot), Pass 2 (pdfplumber), Pass 3 (pdf2image +     *)
(* Tesseract) and the final padding, with the three libraries as the       *)
(* environment.                                                            *)
(*                                                                         *)
(* A Python str is a sequence of characters.  A character is a pair        *)
(* <<page, glyph>>: the glyph is the character itself, and the page is the *)
(* page of the document the character was read from (0 for a character     *)
(* the program itself produced: a separator, or the text of str(None)).    *)
(***************************************************************************)
EXTENDS Integers, Sequences, FiniteSets, TLC

\* Largest document (pages) and longest Camelot TableList explored.
MaxPages == 3
MaxTables == 2

VARIABLES
    openable,     \* the file at pdf_path can be opened as a PDF
    numPages,     \* the document's real page count
    textLayer,    \* the embedded text layer of every page (page_texts never reads it)
    pc,           \* position in page_texts
    out,          \* out: List[str]
    num_pages,    \* num_pages: int | None
    tables,       \* the TableList Pass 1 iterated over
    flavor,       \* what the two camelot.read_pdf calls did
    idx,          \* Pass 2 loop variable (1-based page)
    tbls,         \* page.extract_tables() of every page Pass 2 visited
    vecOut,       \* out as it stood when Pass 3 began
    empty_pages,  \* empty_pages, as 1-based pages
    rendered,     \* pages convert_from_path rasterized
    i,            \* Pass 3 loop variable (1-based page)
    tsv,          \* image_to_data(...) of every page Pass 3 ran OCR on
    ocrCalled     \* pages pytesseract.image_to_data was called for

vars == <<openable, numPages, textLayer, pc, out, num_pages, tables, flavor,
          idx, tbls, vecOut, empty_pages, rendered, i, tsv, ocrCalled>>

----------------------------------------------------------------------------
(* Strings *)

SP == <<0, " ">>
NL == <<0, "\n">>

\* The str whose characters are the glyphs gs, read from page p.
Text(p, gs) == [k \in 1..Len(gs) |-> <<p, gs[k]>>]

IsSpace(c) == c[2] \in {" ", "\n"}

RECURSIVE LStrip(_)
LStrip(s) == IF s = <<>> THEN <<>>
             ELSE IF IsSpace(Head(s)) THEN LStrip(Tail(s)) ELSE s

RECURSIVE RStrip(_)
RStrip(s) == IF s = <<>> THEN <<>>
             ELSE IF IsSpace(s[Len(s)]) THEN RStrip(SubSeq(s, 1, Len(s) - 1)) ELSE s

\* str.strip()
Strip(s) == RStrip(LStrip(s))

\* sep.join(parts)
RECURSIVE Join(_, _)
Join(sep, parts) ==
    IF parts = <<>> THEN <<>>
    ELSE IF Len(parts) = 1 THEN parts[1]
    ELSE parts[1] \o <<sep>> \o Join(sep, Tail(parts))

\* Python values that reach str(): a str, None (a cell pdfplumber found no
\* text for) or NaN (a TSV field pandas read as missing).
StrVal(s) == [kind |-> "str", val |-> s]
None == [kind |-> "none", val |-> <<>>]
NaN == [kind |-> "nan", val |-> <<>>]

\* str(x)
Str(x) == CASE x.kind = "str" -> x.val
            [] x.kind = "none" -> Text(0, <<"N", "o", "n", "e">>)
            [] x.kind = "nan" -> Text(0, <<"n", "a", "n">>)

\* [str(x).strip() for x in row if str(x).strip()]
RECURSIVE Cells(_)
Cells(row) ==
    IF row = <<>> THEN <<>>
    ELSE LET c == Strip(Str(Head(row)))
         IN  IF c # <<>> THEN <<c>> \o Cells(Tail(row)) ELSE Cells(Tail(row))

\* the rows list _df_to_text builds from the DataFrame's rows
RECURSIVE DfRows(_)
DfRows(df) ==
    IF df = <<>> THEN <<>>
    ELSE LET cells == Cells(Head(df))
         IN  IF cells # <<>> THEN <<Join(SP, cells)>> \o DfRows(Tail(df))
             ELSE DfRows(Tail(df))

df_to_text(df) == Join(NL, DfRows(df))

----------------------------------------------------------------------------
(* The list out *)

\* while len(out) < n: out.append("")
PadTo(o, n) == IF Len(o) < n THEN o \o [k \in 1..(n - Len(o)) |-> <<>>] ELSE o

\* A slip in the index: the last entry of out, out[-1], instead of out[p - 1].
SlotLast(o, p) == Len(o)

\* The index of out a table of page p is written to: out[p - 1], 0-based.
SlotOf(o, p) == p

\* out[p - 1] += ("\n" if out[p - 1] else "") + txt, after padding out to p
AddText(o, p, txt) ==
    LET padded == PadTo(o, p)
        k == SlotOf(padded, p)
    IN  [padded EXCEPT ![k] = (IF @ # <<>> THEN @ \o <<NL>> ELSE @) \o txt]

\* for tbl in tables: ... of Pass 1
RECURSIVE CamelotLoop(_, _)
CamelotLoop(o, tl) ==
    IF tl = <<>> THEN o
    ELSE CamelotLoop(AddText(o, Head(tl).page, df_to_text(Head(tl).df)), Tail(tl))

\* for raw_tbl in tbls: ... of Pass 2
RECURSIVE PlumberLoop(_, _, _)
PlumberLoop(o, p, raw) ==
    IF raw = <<>> THEN o
    ELSE PlumberLoop(AddText(o, p, df_to_text(Head(raw))), p, Tail(raw))

\* [i for i, txt in enumerate(out) if not txt]
EmptyPages(o) == {k \in 1..Len(o) : o[k] = <<>>}

----------------------------------------------------------------------------
(* Row reconstruction of Pass 3 *)

\* Order of the (block_num, par_num, line_num) keys: DataFrame.groupby sorts
\* its groups by key.
KeyLess(a, b) ==
    \/ a[1] < b[1]
    \/ a[1] = b[1] /\ a[2] < b[2]
    \/ a[1] = b[1] /\ a[2] = b[2] /\ a[3] < b[3]

RECURSIVE SortKeys(_)
SortKeys(S) ==
    IF S = {} THEN <<>>
    ELSE LET m == CHOOSE k \in S : \A j \in S \ {k} : KeyLess(k, j)
         IN  <<m>> \o SortKeys(S \ {m})

\* the groups of tsv.groupby(["block_num", "par_num", "line_num"]), in order
GroupKeys(t) == SortKeys({t[k].key : k \in 1..Len(t)})

HasKey(r, key) == r.key = key

\* g.text of the group with this key: the records' texts in recognition order
RECURSIVE GroupText(_, _)
GroupText(t, key) ==
    IF t = <<>> THEN <<>>
    ELSE IF HasKey(Head(t), key) THEN <<Head(t).text>> \o GroupText(Tail(t), key)
    ELSE GroupText(Tail(t), key)

\* A slip in the generator: its condition left out.
KeepAnyWord(w) == TRUE

\* the condition of the generator in line 144: if str(t).strip()
KeepWord(w) == w # <<>>

\* str(t).strip() for t in g.text if str(t).strip()
RECURSIVE Words(_)
Words(texts) ==
    IF texts = <<>> THEN <<>>
    ELSE LET w == Strip(Str(Head(texts)))
         IN  IF KeepWord(w) THEN <<w>> \o Words(Tail(texts)) ELSE Words(Tail(texts))

\* A slip in the row filter: rows.append(txt) without the if.
KeepAnyRow(txt) == TRUE

\* if txt: rows.append(txt)
KeepRow(txt) == txt # <<>>

RECURSIVE RowsOf(_, _)
RowsOf(t, keys) ==
    IF keys = <<>> THEN <<>>
    ELSE LET txt == Join(SP, Words(GroupText(t, Head(keys))))
         IN  IF KeepRow(txt) THEN <<txt>> \o RowsOf(t, Tail(keys))
             ELSE RowsOf(t, Tail(keys))

\* rows, as lines 142-146 build it
OcrRows(t) == RowsOf(t, GroupKeys(t))

\* "\n".join(rows)
OcrText(t) == Join(NL, OcrRows(t))

\* A slip in the page filter: no page is skipped.
SkipNone(p, empties) == FALSE

\* if i not in empty_pages: continue
SkipPage(p, empties) == p \notin empties

----------------------------------------------------------------------------
(* What the libraries can return for page p of the document *)

Cell(p, gs) == StrVal(Text(p, gs))

\* a ruled 2 x 2 table
Ruled(p) == << <<Cell(p, <<"A", "1">>), Cell(p, <<"B", "1">>)>>,
               <<Cell(p, <<"A", "2">>), Cell(p, <<"B", "2">>)>> >>

\* a table with a padded cell, empty cells and a row of empty cells only
Ragged(p) == << <<Cell(p, <<" ", "C">>), Cell(p, <<>>)>>,
                <<Cell(p, <<>>), Cell(p, <<" ">>)>>,
                <<Cell(p, <<"D", " ">>), Cell(p, <<"E">>)>> >>

\* a table whose cells are all empty
Blank(p) == << <<Cell(p, <<>>), Cell(p, <<>>)>> >>

\* a table with a cell pdfplumber has no text for
Holes(p) == << <<Cell(p, <<"F">>), None>> >>

\* what the lattice flavor finds: ruled tables, with or without text in them
LatticeGrids(p) == {Ruled(p), Blank(p)}
\* what the stream flavor finds: text aligned in columns
StreamGrids(p) == {Ragged(p)}

\* camelot Table objects of an n-page document: .page and .df
LatticeTables(n) ==
    UNION {{[page |-> p, df |-> g] : g \in LatticeGrids(p)} : p \in 1..n}
StreamTables(n) ==
    UNION {{[page |-> p, df |-> g] : g \in StreamGrids(p)} : p \in 1..n}

\* camelot TableLists of the tables T: tables come in page order
TableLists(T) ==
    UNION {{tl \in [1..k -> T] :
              \A a, b \in 1..k : a < b => tl[a].page <= tl[b].page}
           : k \in 0..MaxTables}

\* page.extract_tables()
PlumberTables(p) == {<<>>, <<Ruled(p)>>, <<Holes(p)>>}

Word(b, par, line, v) == [key |-> <<b, par, line>>, text |-> v]

\* two lines of two words
TwoLines(p) == << Word(1, 1, 1, Cell(p, <<"J">>)), Word(1, 1, 1, Cell(p, <<"C">>)),
                  Word(1, 1, 2, Cell(p, <<"S">>)), Word(1, 1, 2, Cell(p, <<"R">>)) >>

\* nothing but blank records
Noise(p) == << Word(1, 1, 1, Cell(p, <<" ">>)), Word(1, 1, 1, Cell(p, <<>>)) >>

\* blocks out of order, a one-character line, blank records, a missing text
Mixed(p) == << Word(2, 1, 1, Cell(p, <<"x">>)), Word(1, 1, 1, Cell(p, <<" ">>)),
               Word(1, 1, 1, Cell(p, <<>>)), Word(1, 1, 2, NaN) >>

\* pytesseract.image_to_data(...)
OcrData(p) == {<<>>, TwoLines(p), Noise(p), Mixed(p)}

Unknown == 0 - 1    \* num_pages is None

----------------------------------------------------------------------------
(* page_texts *)

NoPages == [p \in {} |-> <<>>]

Init ==
    /\ openable \in BOOLEAN
    /\ numPages \in (IF openable THEN 1..MaxPages ELSE {0})
    /\ textLayer \in {[p \in 1..numPages |-> <<>>],
                      [p \in 1..numPages |-> Text(p, <<"t">>)]}
    /\ pc = "camelot"
    /\ out = <<>>
    /\ num_pages = Unknown
    /\ tables = <<>>
    /\ flavor = "none"
    /\ idx = 0
    /\ tbls = NoPages
    /\ vecOut = <<>>
    /\ empty_pages = {}
    /\ rendered = {}
    /\ i = 0
    /\ tsv = NoPages
    /\ ocrCalled = {}

doc == <<openable, numPages, textLayer>>
pass1 == <<tables, flavor>>
pass2 == <<idx, tbls>>
pass3 == <<vecOut, empty_pages, rendered, i, tsv, ocrCalled>>

\* Pass 1, the lattice call returns tables: they are collapsed into out.
CamelotLattice ==
    /\ pc = "camelot" /\ openable
    /\ \E tl \in TableLists(LatticeTables(numPages)) \ {<<>>} :
         /\ tables' = tl
         /\ out' = CamelotLoop(out, tl)
    /\ num_pages' = numPages
    /\ flavor' = "lattice"
    /\ pc' = "plumber"
    /\ UNCHANGED <<doc, pass2, pass3>>

\* Pass 1, the lattice call returns no table and the stream call is made.
CamelotStream ==
    /\ pc = "camelot" /\ openable
    /\ \E tl \in TableLists(StreamTables(numPages)) :
         /\ tables' = tl
         /\ out' = CamelotLoop(out, tl)
         /\ num_pages' = IF tl = <<>> THEN num_pages ELSE numPages
    /\ flavor' = "stream"
    /\ pc' = "plumber"
    /\ UNCHANGED <<doc, pass2, pass3>>

\* Pass 1 raises, in the lattice call or (after an empty lattice result) in
\* the stream call; the except clause swallows it before out is touched.
CamelotRaise ==
    /\ pc = "camelot"
    /\ \E f \in {"lattice raised", "stream raised"} :
         /\ f = "stream raised" => openable
         /\ flavor' = f
    /\ pc' = "plumber"
    /\ UNCHANGED <<doc, out, num_pages, tables, pass2, pass3>>

\* Pass 2, pdfplumber.open succeeds.
PlumberOpen ==
    /\ pc = "plumber" /\ openable
    /\ num_pages' = IF num_pages = Unknown THEN numPages ELSE num_pages
    /\ idx' = 1
    /\ pc' = "plumberPage"
    /\ UNCHANGED <<doc, out, pass1, tbls, pass3>>

\* Pass 2, pdfplumber.open raises; the except clause swallows it.
PlumberOpenRaise ==
    /\ pc = "plumber"
    /\ pc' = "raster"
    /\ UNCHANGED <<doc, out, num_pages, pass1, pass2, pass3>>

\* Pass 2, one iteration of for idx, page in enumerate(pdf.pages, 1).
PlumberPage ==
    /\ pc = "plumberPage"
    /\ \E raw \in PlumberTables(idx) :
         /\ tbls' = (idx :> raw) @@ tbls
         /\ out' = IF raw = <<>> THEN out ELSE PlumberLoop(out, idx, raw)
    /\ idx' = idx + 1
    /\ pc' = IF idx = numPages THEN "raster" ELSE "plumberPage"
    /\ UNCHANGED <<doc, num_pages, pass1, pass3>>

\* Pass 2, page.extract_tables() raises: the rest of the loop is abandoned.
PlumberPageRaise ==
    /\ pc = "plumberPage"
    /\ pc' = "raster"
    /\ UNCHANGED <<doc, out, num_pages, pass1, pass2, pass3>>

\* if num_pages is None: num_pages = 0
NumPagesOrZero(n) == IF n = Unknown THEN 0 ELSE n

\* Pass 3, empty_pages is empty: the with block is not entered.
RasterNone ==
    /\ pc = "raster"
    /\ EmptyPages(out) = {}
    /\ num_pages' = NumPagesOrZero(num_pages)
    /\ vecOut' = out
    /\ empty_pages' = {}
    /\ pc' = "pad"
    /\ UNCHANGED <<doc, out, pass1, pass2, rendered, i, tsv, ocrCalled>>

\* Pass 3, convert_from_path rasterizes the document: one image per page.
Convert ==
    /\ pc = "raster" /\ openable
    /\ EmptyPages(out) # {}
    /\ vecOut' = out
    /\ empty_pages' = EmptyPages(out)
    /\ rendered' = 1..numPages
    /\ num_pages' = IF NumPagesOrZero(num_pages) = 0 THEN numPages
                    ELSE num_pages
    /\ out' = PadTo(out, numPages)
    /\ i' = 1
    /\ pc' = "ocr"
    /\ UNCHANGED <<doc, pass1, pass2, tsv, ocrCalled>>

\* Pass 3, convert_from_path raises: nothing catches it.
ConvertRaise ==
    /\ pc = "raster"
    /\ EmptyPages(out) # {}
    /\ vecOut' = out
    /\ empty_pages' = EmptyPages(out)
    /\ num_pages' = NumPagesOrZero(num_pages)
    /\ pc' = "raised"
    /\ UNCHANGED <<doc, out, pass1, pass2, rendered, i, tsv, ocrCalled>>

NextImage == /\ i' = i + 1
             /\ pc' = IF i = numPages THEN "pad" ELSE "ocr"

\* Pass 3, an image of a page that is not in empty_pages.
OcrSkip ==
    /\ pc = "ocr"
    /\ SkipPage(i, empty_pages)
    /\ NextImage
    /\ UNCHANGED <<doc, out, num_pages, pass1, pass2, vecOut, empty_pages,
                   rendered, tsv, ocrCalled>>

\* Pass 3, OCR of the image of a page in empty_pages.
OcrPage ==
    /\ pc = "ocr"
    /\ ~SkipPage(i, empty_pages)
    /\ \E t \in OcrData(i) :
         /\ tsv' = (i :> t) @@ tsv
         /\ out' = IF t = <<>> THEN out ELSE [out EXCEPT ![i] = OcrText(t)]
    /\ ocrCalled' = ocrCalled \cup {i}
    /\ NextImage
    /\ UNCHANGED <<doc, num_pages, pass1, pass2, vecOut, empty_pages, rendered>>

\* Pass 3, pytesseract.image_to_data raises: nothing catches it.
OcrRaise ==
    /\ pc = "ocr"
    /\ ~SkipPage(i, empty_pages)
    /\ ocrCalled' = ocrCalled \cup {i}
    /\ pc' = "raised"
    /\ UNCHANGED <<doc, out, num_pages, pass1, pass2, vecOut, empty_pages,
                   rendered, i, tsv>>

\* while len(out) < num_pages: out.append(""), and return out
Pad ==
    /\ pc = "pad"
    /\ out' = PadTo(out, num_pages)
    /\ pc' = "done"
    /\ UNCHANGED <<doc, num_pages, pass1, pass2, pass3>>

Next ==
    \/ CamelotLattice \/ CamelotStream \/ CamelotRaise
    \/ PlumberOpen \/ PlumberOpenRaise \/ PlumberPage \/ PlumberPageRaise
    \/ RasterNone \/ Convert \/ ConvertRaise
    \/ OcrSkip \/ OcrPage \/ OcrRaise
    \/ Pad

Spec == Init /\ [][Next]_vars

----------------------------------------------------------------------------
(* Vocabulary of the properties *)

Pages == 1..numPages

\* page_texts returned out to its caller
Returned == pc = "done"

\* the table text the vector passes (1 and 2) left for page p
VectorText(p) == IF p <= Len(vecOut) THEN vecOut[p] ELSE <<>>

\* the DataFrames of the Camelot tables of page p, in TableList order
RECURSIVE CamelotDfs(_, _)
CamelotDfs(tl, p) ==
    IF tl = <<>> THEN <<>>
    ELSE IF Head(tl).page = p THEN <<Head(tl).df>> \o CamelotDfs(Tail(tl), p)
    ELSE CamelotDfs(Tail(tl), p)

\* the table text Pass 1 produced for page p
CamelotText(p) ==
    LET o == CamelotLoop(<<>>, tables)
    IN  IF p <= Len(o) THEN o[p] ELSE <<>>

\* the lines of a text
RECURSIVE Lines(_)
Lines(s) ==
    IF \A k \in 1..Len(s) : s[k][2] # "\n" THEN <<s>>
    ELSE LET n == CHOOSE k \in 1..Len(s) :
                    s[k][2] = "\n" /\ \A j \in 1..(k - 1) : s[j][2] # "\n"
         IN  <<SubSeq(s, 1, n - 1)>> \o Lines(SubSeq(s, n + 1, Len(s)))

\* OCR recognized no word on page p: it was not run on the page, or every
\* record it returned has a blank text
NoWord(t) == \A k \in 1..Len(t) : Strip(Str(t[k].text)) = <<>>
OcrFoundNothing(p) == p \notin DOMAIN tsv \/ NoWord(tsv[p])

\* the entry of page p was written by the OCR stage
OcrWrote(p) == p \in DOMAIN tsv /\ tsv[p] # <<>>

----------------------------------------------------------------------------
(* C1 *)

\* C1: the list page_texts returns has exactly one entry per page of the
\* document, whatever the three passes found or raised.
C1_OneEntryPerPage == Returned => Len(out) = numPages

----------------------------------------------------------------------------
(* C2 *)

\* C2: every page the vector passes left without table text has been
\* rendered and given to OCR by the time page_texts returns (stated for the
\* calls in which pdfplumber visited every page).
C2_RasterForVectorEmptyPages ==
    (Returned /\ DOMAIN tbls = Pages)
        => \A p \in Pages :
               VectorText(p) = <<>> => p \in rendered /\ p \in ocrCalled

----------------------------------------------------------------------------
(* C3 *)

----------------------------------------------------------------------------
(* C4 *)

\* C4: pdfplumber adds to a page only when Camelot left it without text, and
\* the ruled 2 x 2 table of a 1-page document comes back once.
C4_FirstStrategyOnly ==
    /\ \A p \in DOMAIN tbls : tbls[p] # <<>> => CamelotText(p) = <<>>
    /\ (Returned /\ numPages = 1 /\ tables = <<[page |-> 1, df |-> Ruled(1)]>>)
         => out = <<df_to_text(Ruled(1))>>

----------------------------------------------------------------------------
(* C5 *)

\* C5: no error of the raster stage leaves page_texts as an exception when
\* the document can be opened.
C5_NoErrorEscapes == openable => pc # "raised"

----------------------------------------------------------------------------
(* C6 *)

\* C6: page_texts never returns normally for a document no library can open.
C6_OpenFailureSurfaces == ~openable => ~Returned

----------------------------------------------------------------------------
(* C7 *)

\* the pages of the returned list for which neither the vector passes nor
\* OCR found anything
NothingFound(p) == p <= Len(out) /\ VectorText(p) = <<>> /\ OcrFoundNothing(p)

\* C7 as stated: the entry of a page for which neither the vector passes nor
\* OCR found anything is the page's text layer.
C7_TextLayerFallback ==
    Returned => \A p \in Pages : NothingFound(p) => out[p] = textLayer[p]

\* C7 as amended: the entry of such a page is the empty string, whatever the
\* page's text layer holds.
C7_EmptyWhenNothingFound ==
    Returned => \A p \in Pages : NothingFound(p) => out[p] = <<>>

\* a returned 3-page call: vector text on page 1, OCR text on page 2, and on
\* page 3 a text layer only, whose entry is empty
C7_Witness ==
    /\ Returned /\ numPages = 3 /\ Len(out) = 3
    /\ VectorText(1) # <<>> /\ out[1] = VectorText(1)
    /\ VectorText(2) = <<>> /\ OcrWrote(2) /\ out[2] # <<>>
    /\ NothingFound(3) /\ textLayer[3] # <<>> /\ out[3] = <<>>

----------------------------------------------------------------------------
(* C8 *)

\* C8 as stated, with min_cell_chars = 2, the smallest default the
\* configuration names: every line of an entry OCR wrote has at least
\* min_cell_chars characters.
C8_MinCellChars ==
    \A p \in Pages :
        (OcrWrote(p) /\ out[p] # <<>>) =>
            \A k \in 1..Len(Lines(out[p])) : Len(Lines(out[p])[k]) >= 2

\* C8 as amended: every line of an entry OCR wrote has at least one
\* character.
C8_NoEmptyRow ==
    \A p \in Pages :
        (OcrWrote(p) /\ out[p] # <<>>) =>
            \A k \in 1..Len(Lines(out[p])) : Len(Lines(out[p])[k]) >= 1

\* a returned call with an entry OCR wrote from records that hold blank
\* groups, one of whose lines is a single character
C8_Witness ==
    /\ Returned
    /\ \E p \in Pages :
         /\ OcrWrote(p) /\ out[p] # <<>>
         /\ Len(OcrRows(tsv[p])) < Len(GroupKeys(tsv[p]))
         /\ \E k \in 1..Len(Lines(out[p])) : Len(Lines(out[p])[k]) = 1

----------------------------------------------------------------------------
(* C9 *)

\* the pages the characters of a text were read from
PagesIn(s) == {s[k][1] : k \in 1..Len(s)} \ {0}

\* C9: entry i (0-based) of out holds only text read from page i + 1, at
\* every point of the call.
C9_IndexAligned == \A k \in 1..Len(out) : PagesIn(out[k]) \subseteq {k}

\* a returned call in which a later page got vector text from both libraries
\* and an earlier page got its text from OCR
C9_Witness ==
    /\ Returned
    /\ \E p, q \in Pages :
         /\ p < q
         /\ OcrWrote(p) /\ PagesIn(out[p]) = {p}
         /\ CamelotText(q) # <<>> /\ q \in DOMAIN tbls /\ tbls[q] # <<>>
         /\ PagesIn(out[q]) = {q}

----------------------------------------------------------------------------
(* C10 *)

\* the text of a cell as the claim reads it: trimmed, and empty when the
\* cell has no text
ClaimCell(x) == IF x.kind = "str" THEN Strip(x.val) ELSE <<>>

RECURSIVE ClaimCells(_)
ClaimCells(row) ==
    IF row = <<>> THEN <<>>
    ELSE IF ClaimCell(Head(row)) # <<>>
         THEN <<ClaimCell(Head(row))>> \o ClaimCells(Tail(row))
         ELSE ClaimCells(Tail(row))

\* a row: the single-space join of its non-empty, trimmed cells
ClaimRow(row) == Join(SP, ClaimCells(row))

\* a table: its rows, newline-joined
ClaimTable(df) == Join(NL, [k \in 1..Len(df) |-> ClaimRow(df[k])])

\* a page: the texts of its tables, one newline between consecutive tables
ClaimPage(dfs) == Join(NL, [k \in 1..Len(dfs) |-> ClaimTable(dfs[k])])

\* every row of every one of these tables has a cell with text
TextInEveryRow(dfs) ==
    \A k \in 1..Len(dfs) : \A r \in 1..Len(dfs[k]) : ClaimCells(dfs[k][r]) # <<>>

\* C10, for the pages whose tables have text in every row: after Pass 1 the
\* entry of a page is the collapsed text of its Camelot tables, and a page
\* only pdfplumber found tables on has the collapsed text of those tables.
C10_Collapsing ==
    /\ pc = "plumber" =>
         \A p \in 1..Len(out) :
             TextInEveryRow(CamelotDfs(tables, p))
                 => out[p] = ClaimPage(CamelotDfs(tables, p))
    /\ pc \in {"plumberPage", "raster"} =>
         \A p \in DOMAIN tbls :
             (tbls[p] # <<>> /\ CamelotDfs(tables, p) = <<>>
                /\ TextInEveryRow(tbls[p]))
                 => out[p] = ClaimPage(tbls[p])

----------------------------------------------------------------------------
(* C11 *)

\* Pass 1 is over: pdfplumber is tried next
Pass1Over == pc # "camelot"

\* the call camelot.read_pdf(..., flavor="stream") was made
StreamAttempted == flavor \in {"stream", "stream raised"}

\* the call camelot.read_pdf(..., flavor="lattice") raised
LatticeRaised == flavor = "lattice raised"

\* the lattice call returned, with no table of page p
LatticeFoundNone(p) ==
    \/ flavor \in {"stream", "stream raised"}
    \/ flavor = "lattice" /\ CamelotDfs(tables, p) = <<>>

\* C11: for a document that can be opened, by the end of Pass 1 the stream
\* call has been made if the lattice call raised or returned no table for
\* some page.
C11_StreamAfterLattice ==
    (Pass1Over /\ openable) =>
        ((LatticeRaised \/ \E p \in Pages : LatticeFoundNone(p))
            => StreamAttempted)

----------------------------------------------------------------------------
(* C12 *)

\* a record is valid when it has a text that is not blank
ClaimValid(r) == r.text.kind = "str" /\ Strip(r.text.val) # <<>>

\* the valid records, in recognition order
RECURSIVE ClaimRecords(_)
ClaimRecords(t) ==
    IF t = <<>> THEN <<>>
    ELSE IF ClaimValid(Head(t)) THEN <<Head(t)>> \o ClaimRecords(Tail(t))
    ELSE ClaimRecords(Tail(t))

\* the structural keys of these records, in the order they are first met
RECURSIVE ClaimKeys(_, _)
ClaimKeys(t, seen) ==
    IF t = <<>> THEN <<>>
    ELSE IF Head(t).key \in seen THEN ClaimKeys(Tail(t), seen)
    ELSE <<Head(t).key>> \o ClaimKeys(Tail(t), seen \cup {Head(t).key})

\* the trimmed texts of the records with this key, in recognition order
RECURSIVE ClaimWords(_, _)
ClaimWords(t, key) ==
    IF t = <<>> THEN <<>>
    ELSE IF Head(t).key = key
         THEN <<Strip(Head(t).text.val)>> \o ClaimWords(Tail(t), key)
         ELSE ClaimWords(Tail(t), key)

\* one row per key: its words, separated by single spaces
ClaimOcrRows(t) ==
    LET valid == ClaimRecords(t)
        keys == ClaimKeys(valid, {})
    IN  [k \in 1..Len(keys) |-> Join(SP, ClaimWords(valid, keys[k]))]

\* C12: the entry OCR wrote for a page is the newline-join of the rows
\* reconstructed from the page's valid word records, one row per structural
\* key in first-met order, the words of a row in recognition order.
C12_RowReconstruction ==
    \A p \in Pages : OcrWrote(p) => out[p] = Join(NL, ClaimOcrRows(tsv[p]))

====
